---- MODULE Spec2Model ----
(***************************************************************************)
(* The structured logging engine of GinService (package logger): levels,   *)
(* entries, the logger's write path and derivations, the Console and File  *)
(* handlers with their mutex, the JSON and Text formatters, the stderr     *)
(* fallback and Fatal's process exit; the HTTP middleware of the package; *)
(* and, of package product, the service's UpdateProduct on the in-memory   *)
(* repository.                                                             *)
(*                                                                         *)
(* Callers are goroutines of the application.  A caller's log call is      *)
(* split into steps exactly where another goroutine can observe or         *)
(* interfere: taking the handler's mutex, each piece of a sink write, and  *)
(* the return.  os.File.Write and the rotating writer are library code;    *)
(* io.Writer promises no atomicity, so a write delivers its bytes piece by *)
(* piece and may fail after any number of pieces.                          *)
(***************************************************************************)
EXTENDS Integers, Sequences, FiniteSets, TLC

---------------------------------------------------------------------------
(* Bounds of the model *)

\* concurrent callers, and the API calls each of them makes
NumCallers == 2
MaxCalls == 2
\* the API calls of the single caller of SpecSeq
MaxSeqCalls == 3
\* logger values alive at once (the root and its derivations)
MaxLoggers == 3
\* sink writes the environment lets fail
MaxFaults == 2
\* member handlers of a MultiHandler
MaxMembers == 3

Callers == 1..NumCallers

---------------------------------------------------------------------------
(* Level: const block of package logger *)

DebugLevel == 0
InfoLevel == 1
WarnLevel == 2
ErrorLevel == 3
FatalLevel == 4

Levels == DebugLevel..FatalLevel
\* Level values as an int may hold them: the five constants and the values
\* next to them.
LevelValues == (DebugLevel - 1)..(FatalLevel + 1)
ConcLevels == {InfoLevel, ErrorLevel}

LevelString(l) ==
    CASE l = DebugLevel -> "DEBUG"
      [] l = InfoLevel  -> "INFO"
      [] l = WarnLevel  -> "WARN"
      [] l = ErrorLevel -> "ERROR"
      [] l = FatalLevel -> "FATAL"
      [] OTHER          -> "UNKNOWN"

---------------------------------------------------------------------------
(* Values the callers pass *)

\* Fields is map[string]interface{}: "Chan" stands for a value encoding/json
\* cannot serialise (a channel, a func), the others for plain strings.
EmptyFields == [k \in {} |-> "a"]
F1 == [k \in {"k1"} |-> "a"]
F2 == [k \in {"k1", "k2"} |-> IF k = "k1" THEN "b" ELSE "a"]
F3 == [k \in {"k2"} |-> "Chan"]
FieldArgs == {EmptyFields, F1, F2, F3}
\* the smaller vocabulary of the concurrent callers
ConcArgs == {EmptyFields, F3}

\* error values: nil, an ordinary error, and an error whose Error() method
\* panics (a typed nil pointer behind the interface).
NilErr == "nil"
AppErrors == {NilErr, "e1", "PanicErr"}

ConcErrors == {NilErr, "PanicErr"}

\* context.Context values a caller passes: one still live, one cancelled or
\* past its deadline; NoCtx is the nil Context of the fallback Entry.
Ctxs == {"live", "cancelled"}
ConcCtxs == {"live"}
NoCtx == "nil"

\* errors a handler returns
MarshalError == "json: unsupported type"
WriteError == "write failed"

Now == "now"
FallbackMessage == "Failed to write log entry"

Formats == {"json", "text"}
Outputs == {"stdout", "stderr", "file"}

\* the handler NewLogger builds, and the one log() builds for caller t's
\* n-th call when that handler fails
\* the message of caller t's n-th call: distinct, of one length
Msg(t, n) == "m" \o ToString(t) \o "." \o ToString(n)

CfgHandler == <<"cfg", 0, 0>>
FallbackHandler(t, n) == <<"fb", t, n>>

---------------------------------------------------------------------------
VARIABLES
    config,      \* the one *Config every logger points to, after Validate
    handlerFmt,  \* the configured handler's formatter: [kind, AddCaller, AddStack]
    handlerOut,  \* the sink the configured handler owns
    maps,        \* the Fields maps allocated so far (a logger holds an index)
    loggers,     \* the logger values: [config, handler, fields]
    derivation,  \* history: how each logger was made: [how, parent, arg]
    pc,          \* each caller's position
    call,        \* each caller's current call: locals of log and Handle
    built,       \* history: the call the last step began: its arguments, the
                 \* receiver's base map as it was, the caller's map as log
                 \* left it, and the Entry handed to the handler
    ncalls,      \* write-method calls each caller has started
    mu,          \* the configured handler's mutex: 0 or the caller holding it
    sinks,       \* what each stream / the log file holds, piece by piece
    faults,      \* sink writes that have failed so far
    exited,      \* the process has terminated
    exitCode,    \* its exit status
    unit         \* a single operation tried on its own: its inputs and result

vars == <<config, handlerFmt, handlerOut, maps, loggers, derivation, pc, call,
          built, ncalls, mu, sinks, faults, exited, exitCode, unit>>

---------------------------------------------------------------------------
(* Config.Validate and NewLogger *)

ValidateLevelKept(c) ==
    [c EXCEPT
        !.Format = IF c.Format # "json" /\ c.Format # "text" THEN "json" ELSE c.Format,
        !.Output = IF c.Output # "stdout" /\ c.Output # "stderr" /\ c.Output # "file"
                   THEN "stdout" ELSE c.Output]

ValidateLevelDebug(c) ==
    [c EXCEPT
        !.Level  = IF c.Level < DebugLevel \/ c.Level > FatalLevel
                   THEN DebugLevel ELSE c.Level,
        !.Format = IF c.Format # "json" /\ c.Format # "text" THEN "json" ELSE c.Format,
        !.Output = IF c.Output # "stdout" /\ c.Output # "stderr" /\ c.Output # "file"
                   THEN "stdout" ELSE c.Output]

\* Config.Validate: the values it leaves in *c
Validate(c) ==
    [c EXCEPT
        !.Level  = IF c.Level < DebugLevel \/ c.Level > FatalLevel
                   THEN InfoLevel ELSE c.Level,
        !.Format = IF c.Format # "json" /\ c.Format # "text" THEN "json" ELSE c.Format,
        !.Output = IF c.Output # "stdout" /\ c.Output # "stderr" /\ c.Output # "file"
                   THEN "stdout" ELSE c.Output]

\* The formatter NewLogger picks from config.Format.
NewFormatter(c) ==
    CASE c.Format = "json" -> [kind |-> "json", AddCaller |-> c.AddCaller, AddStack |-> c.AddStack]
      [] c.Format = "text" -> [kind |-> "text", AddCaller |-> c.AddCaller, AddStack |-> c.AddStack]
      [] OTHER             -> [kind |-> "json", AddCaller |-> c.AddCaller, AddStack |-> c.AddStack]

\* The sink of the handler NewLogger picks from config.Output.
NewHandlerOutput(c) ==
    CASE c.Output \in {"stdout", "stderr"} -> c.Output
      [] c.Output = "file"                 -> "file"
      [] OTHER                             -> "stdout"

RawConfigs ==
    [Level : LevelValues, Format : Formats, Output : Outputs,
     AddCaller : {FALSE}, AddStack : {FALSE}]

\* the configurations of the concurrent runs: every format and output
ConcConfigs ==
    [Level : {InfoLevel}, Format : Formats, Output : Outputs,
     AddCaller : {FALSE}, AddStack : {FALSE}]

NoUnit == [op |-> "none"]

NoCall ==
    [after |-> "return", entry |-> <<>>, handled |-> 0,
     data |-> <<>>, sent |-> 0, herr |-> NilErr,
     fbentry |-> <<>>, fbdata |-> <<>>, fbsent |-> 0, fbherr |-> NilErr]

NoneBuilt ==
    [t |-> 0, logger |-> 0, ctx |-> NoCtx, level |-> DebugLevel, msg |-> "",
     err |-> NilErr,
     fields |-> EmptyFields, base |-> EmptyFields, argAfter |-> EmptyFields,
     handed |-> <<>>]

\* NewLogger(raw): the state once the root logger exists.
NewLogger(Configs) ==
    \E raw \in Configs :
        /\ config = Validate(raw)
        /\ handlerFmt = NewFormatter(Validate(raw))
        /\ handlerOut = NewHandlerOutput(Validate(raw))
        /\ maps = <<EmptyFields>>
        /\ loggers = <<[config |-> Validate(raw), handler |-> CfgHandler, fields |-> 1]>>
        /\ derivation = <<[how |-> "NewLogger", parent |-> 0, arg |-> EmptyFields]>>
        /\ pc = [t \in Callers |-> "idle"]
        /\ call = [t \in Callers |-> NoCall]
        /\ built = NoneBuilt
        /\ ncalls = [t \in Callers |-> 0]
        /\ mu = 0
        /\ sinks = [s \in Outputs |-> <<>>]
        /\ faults = 0
        /\ exited = FALSE
        /\ exitCode = 0
        /\ unit = NoUnit

Init == NewLogger(ConcConfigs)

InitSeq == NewLogger(RawConfigs)

---------------------------------------------------------------------------
(* Fields merge: copy the base, then overlay the call-site pairs *)

MergeFields(B, C) ==
    [k \in (DOMAIN B) \cup (DOMAIN C) |-> IF k \in DOMAIN C THEN C[k] ELSE B[k]]

LogMergeInPlace(ms, ref, C) ==
    [maps |-> [ms EXCEPT ![ref] = MergeFields(ms[ref], C)], arg |-> C,
     fields |-> MergeFields(ms[ref], C)]

\* logger.log, the section under l.mu.RLock(): a fresh map holding the
\* merge of l.fields and the call-site fields.  The result names the
\* allocated maps and the caller's map as the section leaves them: it
\* writes neither.
LogMerge(ms, ref, C) ==
    [maps |-> ms, arg |-> C, fields |-> MergeFields(ms[ref], C)]

WithFieldsInPlace(ms, ref, C) ==
    [maps |-> [ms EXCEPT ![ref] = MergeFields(ms[ref], C)], fields |-> ref]

\* logger.WithFields: a fresh map for the new logger, the receiver's kept.
WithFieldsMerge(ms, ref, C) ==
    [maps |-> Append(ms, MergeFields(ms[ref], C)), fields |-> Len(ms) + 1]

WithContextFieldsEmpty(ms, ref) ==
    [maps |-> Append(ms, EmptyFields), fields |-> Len(ms) + 1]

\* logger.WithContext: the new logger shares the receiver's map.
WithContextFields(ms, ref) ==
    [maps |-> ms, fields |-> ref]

FilteredBelowNext(level, cfg) == level + 1 < cfg.Level

FilteredUpToLevel(level, cfg) == level <= cfg.Level

\* logger.log's level filter
Filtered(level, cfg) == level < cfg.Level

EarlyReturnWhenDone(ctx, level, cfg) == Filtered(level, cfg) \/ ctx = "cancelled"

\* The one early return of logger.log: the level filter.  ctx is stored in
\* the Entry and consulted nowhere.
EarlyReturn(ctx, level, cfg) == Filtered(level, cfg)

NewEntry(ctx, level, msg, err, fields) ==
    [Level |-> level, Timestamp |-> Now, Message |-> msg, Fields |-> fields,
     Error |-> err, Context |-> ctx]

\* The Entry log() hands to the fallback handler.
FallbackEntry(err) ==
    [Level |-> ErrorLevel, Timestamp |-> Now, Message |-> FallbackMessage,
     Fields |-> EmptyFields, Error |-> err, Context |-> NoCtx]

---------------------------------------------------------------------------
(* Formatters.  A result is [panic, err, data]; data is the output cut     *)
(* into the pieces a write may deliver separately: for JSON the object up  *)
(* to its closing brace and the brace (json.Marshal appends no newline),   *)
(* for Text the joined parts and the newline.                              *)

Piece(kind, body) == [kind |-> kind, body |-> body]

\* entry.Error.Error() panics for an error whose method faults.
ErrorPanics(entry) == entry.Error = "PanicErr"

\* The map JSONFormatter.Format fills before json.Marshal: engine keys,
\* then every field, then error, caller/function and stack.
JSONData(f, entry) ==
    LET base   == [k \in {"level", "timestamp", "message"} |->
                      CASE k = "level"     -> LevelString(entry.Level)
                        [] k = "timestamp" -> entry.Timestamp
                        [] OTHER           -> entry.Message]
        d1     == MergeFields(base, entry.Fields)
        d2     == IF entry.Error # NilErr
                  THEN MergeFields(d1, [k \in {"error"} |-> entry.Error])
                  ELSE d1
        d3     == IF f.AddCaller
                  THEN MergeFields(d2, [k \in {"caller", "function"} |->
                                          IF k = "caller" THEN "file:line" ELSE "func"])
                  ELSE d2
    IN  IF f.AddStack /\ entry.Error # NilErr
        THEN MergeFields(d3, [k \in {"stack"} |-> "frames"])
        ELSE d3

\* json.Marshal of the map: one member per key, the key and the encoding of
\* its value (every value the model keeps is a string).
JSONMarshal(data) ==
    {[key |-> k, value |-> [json |-> "string", chars |-> data[k]]] :
        k \in DOMAIN data}

\* json.Marshal fails on a value it cannot encode.
Unmarshalable(data) == \E k \in DOMAIN data : data[k] = "Chan"

JSONFormatter_Format(f, entry) ==
    IF entry.Error # NilErr /\ ErrorPanics(entry)
    THEN [panic |-> TRUE, err |-> NilErr, data |-> <<>>]
    ELSE IF Unmarshalable(JSONData(f, entry))
    THEN [panic |-> FALSE, err |-> MarshalError, data |-> <<>>]
    ELSE [panic |-> FALSE, err |-> NilErr,
          data |-> <<Piece("json", JSONMarshal(JSONData(f, entry))),
                     Piece("}", <<>>)>>]

Part(p, v) == [p |-> p, v |-> v]

\* strings.ToUpper on the names a level can have
ToUpper(s) ==
    CASE s \in {"DEBUG", "debug", "Debug"}       -> "DEBUG"
      [] s \in {"INFO", "info", "Info"}          -> "INFO"
      [] s \in {"WARN", "warn", "Warn"}          -> "WARN"
      [] s \in {"ERROR", "error", "Error"}       -> "ERROR"
      [] s \in {"FATAL", "fatal", "Fatal"}       -> "FATAL"
      [] s \in {"UNKNOWN", "unknown", "Unknown"} -> "UNKNOWN"
      [] OTHER                                   -> s

TextPartsErrorFirst(f, entry) ==
    <<Part("timestamp", entry.Timestamp),
      Part("[%s]", ToUpper(LevelString(entry.Level)))>>
    \o (IF f.AddCaller THEN <<Part("(%s)", "file:line func")>> ELSE <<>>)
    \o <<Part("message", entry.Message)>>
    \o (IF entry.Error # NilErr THEN <<Part("error=%s", entry.Error)>> ELSE <<>>)
    \o (IF Cardinality(DOMAIN entry.Fields) > 0
        THEN <<Part("{%s}", entry.Fields)>> ELSE <<>>)
    \o (IF f.AddStack /\ entry.Error # NilErr
        THEN <<Part("\nStack trace:", <<>>), Part("frames", "frames")>>
        ELSE <<>>)

\* The parts TextFormatter.Format joins with spaces.  A part is named by the
\* decoration Sprintf gives it: "[%s]" the level, "(%s)" the caller, "{%s}"
\* the fields, "error=%s" the error; the stack trace is the part
\* "\nStack trace:" followed by the frames.
TextParts(f, entry) ==
    <<Part("timestamp", entry.Timestamp),
      Part("[%s]", ToUpper(LevelString(entry.Level)))>>
    \o (IF f.AddCaller THEN <<Part("(%s)", "file:line func")>> ELSE <<>>)
    \o <<Part("message", entry.Message)>>
    \o (IF Cardinality(DOMAIN entry.Fields) > 0
        THEN <<Part("{%s}", entry.Fields)>> ELSE <<>>)
    \o (IF entry.Error # NilErr THEN <<Part("error=%s", entry.Error)>> ELSE <<>>)
    \o (IF f.AddStack /\ entry.Error # NilErr
        THEN <<Part("\nStack trace:", <<>>), Part("frames", "frames")>>
        ELSE <<>>)

TextFormatter_Format(f, entry) ==
    IF entry.Error # NilErr /\ ErrorPanics(entry)
    THEN [panic |-> TRUE, err |-> NilErr, data |-> <<>>]
    ELSE [panic |-> FALSE, err |-> NilErr,
          data |-> <<Piece("line", TextParts(f, entry)), Piece("\n", <<>>)>>]

Format(f, entry) ==
    IF f.kind = "json" THEN JSONFormatter_Format(f, entry)
    ELSE TextFormatter_Format(f, entry)

\* What a sink keeps of each piece: its kind, and as history the handler
\* instance that wrote it and the call it belongs to.  The text of a piece
\* is the formatter's output for that call's Entry.
Tagged(data, h, id) ==
    [i \in 1..Len(data) |-> [h |-> h, call |-> id, kind |-> data[i].kind]]

---------------------------------------------------------------------------
(* ConsoleHandler.Handle / FileHandler.Handle of the configured handler,   *)
(* and logger.log's fallback                                               *)

LockIgnored(m) == TRUE

\* h.mu.Lock() returns only when the mutex is free.
LockFree(m) == m = 0

ConsoleOutputStdout(output) == "stdout"

\* The sink NewConsoleHandler binds for an output name.
ConsoleOutput(output) == IF output = "stdout" THEN "stdout" ELSE "stderr"

FallbackFormatter == [kind |-> "text", AddCaller |-> FALSE, AddStack |-> FALSE]

StartFallbackTwice(c, id, err) ==
    LET e == FallbackEntry(err)
        r == Format(FallbackFormatter, e)
    IN  [c EXCEPT !.herr = err, !.entry = <<>>, !.fbentry = <<e, e>>,
                  !.fbdata = Tagged(r.data \o r.data,
                                    FallbackHandler(id[1], id[2]), id)]

\* log() after Handle returned err: NewConsoleHandler("stderr",
\* &TextFormatter{}) and its Handle(Entry{ErrorLevel, "Failed to write log
\* entry", err}) up to the write.  The new handler's own mutex is free and
\* the Text formatter returns no error.
StartFallback(c, id, err) ==
    LET e == FallbackEntry(err)
        r == Format(FallbackFormatter, e)
    IN  [c EXCEPT !.herr = err, !.entry = <<>>, !.fbentry = <<e>>,
                  !.fbdata = Tagged(r.data, FallbackHandler(id[1], id[2]), id)]

LockedWritesOnError(t, id, c, e) ==
    LET r == Format(handlerFmt, e)
    IN  IF r.panic
        THEN [pc |-> "panic", call |-> [c EXCEPT !.entry = <<>>], mu |-> mu]
        ELSE [pc |-> "write",
              call |-> [c EXCEPT !.entry = <<>>,
                                 !.data = Tagged(IF r.err # NilErr
                                                 THEN <<Piece("json", <<>>)>>
                                                 ELSE r.data, CfgHandler, id)],
              mu |-> t]

\* Handle from the moment the caller t holds h.mu: Format, then either the
\* write begins, or Format's error is returned (the deferred Unlock runs and
\* log() falls back), or Format's panic unwinds (the deferred Unlock runs).
\* The result is the caller's next position, its locals and the mutex.
Locked(t, id, c, e) ==
    LET r == Format(handlerFmt, e)
    IN  IF r.panic
        THEN [pc |-> "panic", call |-> [c EXCEPT !.entry = <<>>], mu |-> mu]
        ELSE IF r.err # NilErr
        THEN [pc |-> "fbwrite", call |-> StartFallback(c, id, r.err), mu |-> mu]
        ELSE [pc |-> "write",
              call |-> [c EXCEPT !.entry = <<>>,
                                 !.data = Tagged(r.data, CfgHandler, id)],
              mu |-> t]

---------------------------------------------------------------------------
(* The write methods: Debug/Info/Warn/Error/Fatal -> log *)

CallId(t) == <<t, ncalls[t]>>

\* The errors a write method can carry: Debug, Info and Warn pass nil.
MethodErrors(level) ==
    IF level \in {ErrorLevel, FatalLevel} THEN AppErrors ELSE {NilErr}

\* What a write method does once l.log has returned: Fatal calls os.Exit.
AfterLog(level) == IF level = FatalLevel THEN "exit" ELSE "return"

\* os.Exit(1) in logger.Fatal
FatalExitStatus == 1

\* The exit status of a process ended by a panic nobody recovered: the Go
\* runtime's, the status after the one logger.Fatal exits with.
PanicExitStatus == FatalExitStatus + 1

\* A caller enters Debug/Info/Warn/Error/Fatal on some logger and runs
\* logger.log: the level filter, the merge under RLock, the Entry, and
\* l.handler.Handle(entry).  These steps touch nothing another goroutine
\* writes, so they form one step that ends where the caller first meets the
\* others: at the handler's mutex, which it takes if free and waits for
\* otherwise.
CallWith(t, max, lvls, errs, args, ctxs) ==
    /\ ~exited
    /\ pc[t] = "idle"
    /\ ncalls[t] < max
    /\ \E l \in 1..Len(loggers), level \in lvls, C \in args, ctx \in ctxs :
         \E err \in MethodErrors(level) \cap errs :
            LET id == <<t, ncalls[t] + 1>>
                lg == loggers[l]
                m  == LogMerge(maps, lg.fields, C)
                e  == NewEntry(ctx, level, Msg(id[1], id[2]), err, m.fields)
                c0 == [NoCall EXCEPT !.after = AfterLog(level)]
                c1 == [c0 EXCEPT !.entry = <<e>>, !.handled = 1]
                b  == [t |-> t, logger |-> l, ctx |-> ctx, level |-> level,
                       msg |-> Msg(id[1], id[2]), err |-> err, fields |-> C,
                       base |-> maps[lg.fields], argAfter |-> C,
                       handed |-> <<>>]
            IN  /\ ncalls' = [ncalls EXCEPT ![t] = @ + 1]
                /\ IF EarlyReturn(ctx, level, lg.config)
                   THEN /\ call' = [call EXCEPT ![t] = c0]
                        /\ pc' = [pc EXCEPT ![t] = "ret"]
                        /\ built' = b
                        /\ UNCHANGED <<maps, mu>>
                   ELSE /\ maps' = m.maps
                        /\ built' = [b EXCEPT !.handed = <<e>>, !.argAfter = m.arg]
                        /\ IF LockFree(mu)
                           THEN /\ call' = [call EXCEPT ![t] = Locked(t, id, c1, e).call]
                                /\ pc' = [pc EXCEPT ![t] = Locked(t, id, c1, e).pc]
                                /\ mu' = Locked(t, id, c1, e).mu
                           ELSE /\ call' = [call EXCEPT ![t] = c1]
                                /\ pc' = [pc EXCEPT ![t] = "Handle"]
                                /\ UNCHANGED mu
    /\ UNCHANGED <<unit, config, handlerFmt, handlerOut, loggers, derivation, sinks,
                   faults, exited, exitCode>>

Call(t) == CallWith(t, MaxCalls, ConcLevels, ConcErrors, ConcArgs, ConcCtxs)

CallSeq(t) == CallWith(t, MaxSeqCalls, Levels, AppErrors, FieldArgs, Ctxs)

\* A caller waiting in Handle gets the mutex.
HandleLock(t) ==
    /\ ~exited
    /\ pc[t] = "Handle"
    /\ LockFree(mu)
    /\ LET r == Locked(t, CallId(t), call[t], call[t].entry[1])
       IN  /\ call' = [call EXCEPT ![t] = r.call]
           /\ pc' = [pc EXCEPT ![t] = r.pc]
           /\ mu' = r.mu
    /\ built' = NoneBuilt
    /\ UNCHANGED <<unit, config, handlerFmt, handlerOut, maps, loggers, derivation,
                   ncalls, sinks, faults, exited, exitCode>>

HandleWriteAhead(t) ==
    /\ ~exited
    /\ pc[t] = "write"
    /\ LET c == call[t]
           last == c.sent + 1 = Len(c.data)
       IN  /\ sinks' = [sinks EXCEPT ![handlerOut] = <<c.data[c.sent + 1]>> \o @]
           /\ call' = [call EXCEPT ![t].sent = @ + 1]
           /\ mu' = IF last THEN 0 ELSE mu
           /\ pc' = [pc EXCEPT ![t] = IF last THEN "ret" ELSE "write"]
    /\ built' = NoneBuilt
    /\ UNCHANGED <<unit, config, handlerFmt, handlerOut, maps, loggers, derivation,
                   ncalls, faults, exited, exitCode>>

\* h.output.Write(data) / h.writer.Write(data): the next piece reaches the
\* sink; after the last one Handle returns nil and the deferred Unlock runs.
HandleWrite(t) ==
    /\ ~exited
    /\ pc[t] = "write"
    /\ LET c == call[t]
           last == c.sent + 1 = Len(c.data)
       IN  /\ sinks' = [sinks EXCEPT ![handlerOut] = Append(@, c.data[c.sent + 1])]
           /\ call' = [call EXCEPT ![t].sent = @ + 1]
           /\ mu' = IF last THEN 0 ELSE mu
           /\ pc' = [pc EXCEPT ![t] = IF last THEN "ret" ELSE "write"]
    /\ built' = NoneBuilt
    /\ UNCHANGED <<unit, config, handlerFmt, handlerOut, maps, loggers, derivation,
                   ncalls, faults, exited, exitCode>>

HandleWriteFailKeepsLock(t) ==
    /\ ~exited
    /\ pc[t] = "write"
    /\ faults < MaxFaults
    /\ faults' = faults + 1
    /\ call' = [call EXCEPT ![t] = StartFallback(@, CallId(t), WriteError)]
    /\ pc' = [pc EXCEPT ![t] = "fbwrite"]
    /\ built' = NoneBuilt
    /\ UNCHANGED <<unit, config, handlerFmt, handlerOut, maps, loggers, derivation,
                   ncalls, mu, sinks, exited, exitCode>>

\* The write fails (stream closed, disk full) with the pieces delivered so
\* far left in the sink: Handle returns the error, the deferred Unlock runs,
\* log() falls back.
HandleWriteFail(t) ==
    /\ ~exited
    /\ pc[t] = "write"
    /\ faults < MaxFaults
    /\ faults' = faults + 1
    /\ call' = [call EXCEPT ![t] = StartFallback(@, CallId(t), WriteError)]
    /\ mu' = 0
    /\ pc' = [pc EXCEPT ![t] = "fbwrite"]
    /\ built' = NoneBuilt
    /\ UNCHANGED <<unit, config, handlerFmt, handlerOut, maps, loggers, derivation,
                   ncalls, sinks, exited, exitCode>>

\* The fallback handler's Write to os.Stderr, piece by piece.
FallbackWrite(t) ==
    /\ ~exited
    /\ pc[t] = "fbwrite"
    /\ LET c == call[t]
           last == c.fbsent + 1 = Len(c.fbdata)
       IN  /\ sinks' = [sinks EXCEPT ![ConsoleOutput("stderr")] =
                           Append(@, c.fbdata[c.fbsent + 1])]
           /\ call' = [call EXCEPT ![t].fbsent = @ + 1]
           /\ pc' = [pc EXCEPT ![t] = IF last THEN "ret" ELSE "fbwrite"]
    /\ built' = NoneBuilt
    /\ UNCHANGED <<unit, config, handlerFmt, handlerOut, maps, loggers, derivation,
                   ncalls, mu, faults, exited, exitCode>>

\* The fallback's write fails: log() ignores what fallbackHandler.Handle returns.
FallbackWriteFail(t) ==
    /\ ~exited
    /\ pc[t] = "fbwrite"
    /\ faults < MaxFaults
    /\ faults' = faults + 1
    /\ call' = [call EXCEPT ![t].fbherr = WriteError]
    /\ pc' = [pc EXCEPT ![t] = "ret"]
    /\ built' = NoneBuilt
    /\ UNCHANGED <<unit, config, handlerFmt, handlerOut, maps, loggers, derivation,
                   ncalls, mu, sinks, exited, exitCode>>

---------------------------------------------------------------------------
(* Return, exit, panic *)

\* The process ends: its goroutines, their locals and the mutex are gone;
\* what the sinks hold and the exit status stay.
Terminated(status) ==
    /\ exited' = TRUE
    /\ exitCode' = status
    /\ pc' = [t \in Callers |-> "dead"]
    /\ call' = [t \in Callers |-> NoCall]
    /\ mu' = 0
    /\ built' = NoneBuilt

ReturnAlwaysExits(t) ==
    /\ ~exited
    /\ pc[t] = "ret"
    /\ Terminated(FatalExitStatus)
    /\ UNCHANGED <<unit, config, handlerFmt, handlerOut, maps, loggers,
                   derivation, ncalls, sinks, faults>>

\* l.log has returned into the write method: Debug..Error return to the
\* application, Fatal calls os.Exit(1).
Return(t) ==
    /\ ~exited
    /\ pc[t] = "ret"
    /\ IF call[t].after = "exit"
       THEN Terminated(FatalExitStatus)
       ELSE /\ pc' = [pc EXCEPT ![t] = "idle"]
            /\ call' = [call EXCEPT ![t] = NoCall]
            /\ built' = NoneBuilt
            /\ UNCHANGED <<mu, exited, exitCode>>
    /\ UNCHANGED <<unit, config, handlerFmt, handlerOut, maps, loggers, derivation,
                   ncalls, sinks, faults>>

\* A panic has unwound through Handle, log and the write method into the
\* application, which recovers it and goes on ...
PanicRecovered(t) ==
    /\ ~exited
    /\ pc[t] = "panic"
    /\ pc' = [pc EXCEPT ![t] = "idle"]
    /\ call' = [call EXCEPT ![t] = NoCall]
    /\ built' = NoneBuilt
    /\ UNCHANGED <<unit, config, handlerFmt, handlerOut, maps, loggers, derivation,
                   ncalls, mu, sinks, faults, exited, exitCode>>

\* ... or does not, and the runtime ends the process.
PanicCrash(t) ==
    /\ ~exited
    /\ pc[t] = "panic"
    /\ Terminated(PanicExitStatus)
    /\ UNCHANGED <<unit, config, handlerFmt, handlerOut, maps, loggers, derivation,
                   ncalls, sinks, faults>>

---------------------------------------------------------------------------
(* Derivations *)

WithFieldsWith(t, max, args) ==
    /\ ~exited
    /\ pc[t] = "idle"
    /\ ncalls[t] < max
    /\ Len(loggers) < MaxLoggers
    /\ \E l \in 1..Len(loggers), C \in args :
         LET m == WithFieldsMerge(maps, loggers[l].fields, C)
         IN  /\ maps' = m.maps
             /\ loggers' = Append(loggers,
                    [config |-> loggers[l].config, handler |-> loggers[l].handler,
                     fields |-> m.fields])
             /\ derivation' = Append(derivation,
                    [how |-> "WithFields", parent |-> l, arg |-> C])
    /\ ncalls' = [ncalls EXCEPT ![t] = @ + 1]
    /\ built' = NoneBuilt
    /\ UNCHANGED <<unit, config, handlerFmt, handlerOut, pc, call, mu, sinks,
                   faults, exited, exitCode>>

WithFields(t) == WithFieldsWith(t, MaxCalls, ConcArgs)

WithFieldsSeq(t) == WithFieldsWith(t, MaxSeqCalls, FieldArgs)

WithContextWith(t, max) ==
    /\ ~exited
    /\ pc[t] = "idle"
    /\ ncalls[t] < max
    /\ Len(loggers) < MaxLoggers
    /\ \E l \in 1..Len(loggers) :
         LET m == WithContextFields(maps, loggers[l].fields)
         IN  /\ maps' = m.maps
             /\ loggers' = Append(loggers,
                    [config |-> loggers[l].config, handler |-> loggers[l].handler,
                     fields |-> m.fields])
             /\ derivation' = Append(derivation,
                    [how |-> "WithContext", parent |-> l, arg |-> EmptyFields])
    /\ ncalls' = [ncalls EXCEPT ![t] = @ + 1]
    /\ built' = NoneBuilt
    /\ UNCHANGED <<unit, config, handlerFmt, handlerOut, pc, call, mu, sinks,
                   faults, exited, exitCode>>

WithContext(t) == WithContextWith(t, MaxCalls)

WithContextSeq(t) == WithContextWith(t, MaxSeqCalls)

---------------------------------------------------------------------------
(* Concurrent callers sharing the loggers and the handler *)

Next ==
    \E t \in Callers :
        \/ Call(t)
        \/ HandleLock(t)
        \/ HandleWrite(t)
        \/ HandleWriteFail(t)
        \/ FallbackWrite(t)
        \/ FallbackWriteFail(t)
        \/ Return(t)
        \/ PanicRecovered(t)
        \/ PanicCrash(t)
        \/ WithFields(t)
        \/ WithContext(t)

Spec == Init /\ [][Next]_vars

(* The same callers under the scheduling the runtime gives them: a sink    *)
(* write that has been called returns (it delivers its next piece unless   *)
(* it fails), and a goroutine blocked in h.mu.Lock() gets the mutex once   *)
(* it stays free.  Every caller makes finitely many calls, so this weak    *)
(* fairness is all the runs need; sync.Mutex promises more, handing the    *)
(* lock to a waiter that has waited long ahead of new arrivals.            *)

\* the configuration of the fair runs: the JSON formatter, whose Format can
\* return an error, on stdout
LiveConfigs ==
    [Level : {InfoLevel}, Format : {"json"}, Output : {"stdout"},
     AddCaller : {FALSE}, AddStack : {FALSE}]

InitLive == NewLogger(LiveConfigs)

\* The write methods on the one logger NewLogger returned.
NextLive ==
    \E t \in Callers :
        \/ Call(t)
        \/ HandleLock(t)
        \/ HandleWrite(t)
        \/ HandleWriteFail(t)
        \/ FallbackWrite(t)
        \/ FallbackWriteFail(t)
        \/ Return(t)
        \/ PanicRecovered(t)
        \/ PanicCrash(t)

SpecLive ==
    /\ InitLive
    /\ [][NextLive]_vars
    /\ \A t \in Callers : WF_vars(HandleWrite(t))
    /\ \A t \in Callers : WF_vars(HandleLock(t))

(* One caller, every level, configuration and field map.  With a single    *)
(* caller nobody ever waits for the mutex, so HandleLock has no part.      *)

NextSeq ==
    \/ CallSeq(1)
    \/ HandleWrite(1)
    \/ HandleWriteFail(1)
    \/ FallbackWrite(1)
    \/ FallbackWriteFail(1)
    \/ Return(1)
    \/ PanicRecovered(1)
    \/ PanicCrash(1)
    \/ WithFieldsSeq(1)
    \/ WithContextSeq(1)

SpecSeq == InitSeq /\ [][NextSeq]_vars

---------------------------------------------------------------------------
(* Operations tried on their own: each step applies one operation to     *)
(* inputs drawn from a small set and keeps inputs and result in unit.    *)

logVars == <<config, handlerFmt, handlerOut, maps, loggers, derivation, pc,
             call, built, ncalls, mu, sinks, faults, exited, exitCode>>

\* DefaultConfig(), as far as the model keeps a Config
DefaultConfig ==
    [Level |-> InfoLevel, Format |-> "json", Output |-> "stdout",
     AddCaller |-> TRUE, AddStack |-> FALSE]

\* What a member handler's Handle returns: nil or an error.
MemberResults == {NilErr, "e1", "e2"}

\* The lists of member handlers NewMultiHandler is given, each member
\* named by what its Handle returns.
RECURSIVE SeqsUpTo(_, _)
SeqsUpTo(S, n) ==
    IF n = 0 THEN {<<>>}
    ELSE SeqsUpTo(S, n - 1)
         \cup {Append(q, x) : q \in {r \in SeqsUpTo(S, n - 1) : Len(r) = n - 1},
                               x \in S}

KeepFirstErr(lastErr, err) ==
    IF lastErr # NilErr THEN lastErr ELSE IF err # NilErr THEN err ELSE lastErr

\* MultiHandler.Handle, the loop body: if err != nil { lastErr = err }
SetLastErr(lastErr, err) == IF err # NilErr THEN err ELSE lastErr

\* MultiHandler.Handle from member i on: invoked lists the members whose
\* Handle was called, in the order of the calls.
RECURSIVE MultiHandleFrom(_, _, _, _)
MultiHandleFrom(handlers, i, invoked, lastErr) ==
    IF i > Len(handlers)
    THEN [invoked |-> invoked, err |-> lastErr]
    ELSE MultiHandleFrom(handlers, i + 1, Append(invoked, i),
                         SetLastErr(lastErr, handlers[i]))

MultiHandler_Handle(handlers) == MultiHandleFrom(handlers, 1, <<>>, NilErr)

MultiHandle ==
    /\ \E handlers \in SeqsUpTo(MemberResults, MaxMembers) :
          unit' = [op |-> "MultiHandler.Handle", handlers |-> handlers,
                   result |-> MultiHandler_Handle(handlers)]
    /\ UNCHANGED logVars

\* Field maps whose keys meet the keys the formatters write themselves.
UnitBases == {EmptyFields, F1}
UnitFields ==
    {EmptyFields, F1, F2, F3}
    \cup {[k \in {key} |-> "a"] : key \in {"level", "timestamp", "message", "error"}}

FormatterFlags == [kind : {"json"}, AddCaller : BOOLEAN, AddStack : BOOLEAN]

\* The Entry logger.log builds for a call on a logger with base fields B,
\* handed to JSONFormatter.Format.
FormatJSON ==
    /\ \E f \in FormatterFlags, level \in Levels, B \in UnitBases,
          C \in UnitFields, err \in {NilErr, "e1"} :
          LET e == NewEntry("live", level, Msg(1, 1), err,
                            LogMerge(<<B>>, 1, C).fields)
          IN  unit' = [op |-> "JSONFormatter.Format", f |-> f, base |-> B,
                       fields |-> C, entry |-> e,
                       result |-> JSONFormatter_Format(f, e)]
    /\ UNCHANGED logVars

\* Config values as a configuration file may give them: levels out of
\* range, unknown and empty format and output names.
UnitConfigs ==
    [Level : (DebugLevel - 1)..(FatalLevel + 1),
     Format : {"json", "text", "xml", ""},
     Output : {"stdout", "stderr", "file", "syslog", ""},
     AddCaller : {FALSE}, AddStack : {FALSE}]

MkdirError == "mkdir failed"
UnsupportedOutput == "unsupported console output"

\* What Config.Validate returns: the error of os.MkdirAll for file output.
ValidateErr(c, mkdirOK) ==
    IF Validate(c).Output = "file" /\ ~mkdirOK THEN MkdirError ELSE NilErr

\* What NewConsoleHandler returns as error.
NewConsoleHandlerErr(output) ==
    IF output \in {"stdout", "stderr"} THEN NilErr ELSE UnsupportedOutput

\* The error of the handler constructor NewLogger calls; NewFileHandler
\* returns none.
NewHandlerErr(c) ==
    CASE c.Output \in {"stdout", "stderr"} -> NewConsoleHandlerErr(c.Output)
      [] c.Output = "file"                 -> NilErr
      [] OTHER                             -> NewConsoleHandlerErr("stdout")

\* NewLogger(raw) as a function: the error, or the logger it returns.
NewLoggerResult(raw, mkdirOK) ==
    LET c == Validate(raw)
    IN  IF ValidateErr(raw, mkdirOK) # NilErr
        THEN [err |-> ValidateErr(raw, mkdirOK), logger |-> <<>>]
        ELSE IF NewHandlerErr(c) # NilErr
        THEN [err |-> NewHandlerErr(c), logger |-> <<>>]
        ELSE [err |-> NilErr,
              logger |-> <<[config |-> c, formatter |-> NewFormatter(c),
                            output |-> NewHandlerOutput(c),
                            fields |-> EmptyFields]>>]

Construct ==
    /\ \E raw \in UnitConfigs, mkdirOK \in BOOLEAN :
          unit' = [op |-> "NewLogger", raw |-> raw, mkdirOK |-> mkdirOK,
                   result |-> NewLoggerResult(raw, mkdirOK)]
    /\ UNCHANGED logVars

\* The method set of the Logger interface.
LoggerMethods ==
    {"Debug", "Info", "Warn", "Error", "Fatal", "WithContext", "WithFields"}

\* A handler as Close sees it: its kind, whether its sink is open, and as
\* history how often Close was called on it.
OpenHandler(output) == [kind |-> output, open |-> TRUE, closes |-> 0]

\* ConsoleHandler.Close leaves stdout / stderr open; FileHandler.Close
\* closes the rotating writer, which releases the file.
Handler_Close(h) ==
    [h EXCEPT !.closes = @ + 1,
              !.open = IF h.kind = "file" THEN FALSE ELSE @]

\* What the application can do with its Logger when it shuts down: call
\* Close if the interface has it.  The handler is an unexported field of
\* the logger, out of the application's reach.
LoggerShutdown(h) ==
    IF "Close" \in LoggerMethods THEN Handler_Close(h) ELSE h

Shutdown ==
    /\ \E raw \in UnitConfigs :
          unit' = [op |-> "Shutdown",
                   handler |-> LoggerShutdown(
                                  OpenHandler(NewHandlerOutput(Validate(raw))))]
    /\ UNCHANGED logVars

\* Level.String on its own.
LevelName ==
    /\ \E l \in LevelValues :
          unit' = [op |-> "Level.String", level |-> l, result |-> LevelString(l)]
    /\ UNCHANGED logVars

TextFlags == [kind : {"text"}, AddCaller : BOOLEAN, AddStack : BOOLEAN]

\* The Entry logger.log builds for a call on a logger with base fields B,
\* handed to TextFormatter.Format.
FormatText ==
    /\ \E f \in TextFlags, level \in Levels, B \in UnitBases,
          C \in {EmptyFields, F1, F2}, err \in {NilErr, "e1"} :
          LET e == NewEntry("live", level, Msg(1, 1), err,
                            LogMerge(<<B>>, 1, C).fields)
          IN  unit' = [op |-> "TextFormatter.Format", f |-> f, base |-> B,
                       fields |-> C, entry |-> e,
                       result |-> TextFormatter_Format(f, e)]
    /\ UNCHANGED logVars

\* The level names a configuration file may give: the five the application
\* recognises, and others.
RecognisedLevelNames == {"debug", "info", "warn", "error", "fatal"}
LevelInputs == RecognisedLevelNames \cup {"DEBUG", "warning", "trace", ""}

LevelFromNameDefaultDebug(name) ==
    CASE name = "info"  -> InfoLevel
      [] name = "warn"  -> WarnLevel
      [] name = "error" -> ErrorLevel
      [] name = "fatal" -> FatalLevel
      [] OTHER          -> DebugLevel

\* main's switch on cfg.Log.Level: the name of a level to the Level.
LevelFromName(name) ==
    CASE name = "debug" -> DebugLevel
      [] name = "info"  -> InfoLevel
      [] name = "warn"  -> WarnLevel
      [] name = "error" -> ErrorLevel
      [] name = "fatal" -> FatalLevel
      [] OTHER          -> InfoLevel

\* main: the level name from the configuration becomes the Level of the
\* logger.Config handed to NewLogger.
ParseLevel ==
    /\ \E name \in LevelInputs, format \in Formats, output \in {"stdout", "stderr"} :
          LET raw == [Level |-> LevelFromName(name), Format |-> format,
                      Output |-> output, AddCaller |-> FALSE, AddStack |-> FALSE]
          IN  unit' = [op |-> "ParseLevel", name |-> name,
                       level |-> LevelFromName(name),
                       result |-> NewLoggerResult(raw, TRUE)]
    /\ UNCHANGED logVars

---------------------------------------------------------------------------
(* The HTTP middleware of package logger.  A request is what the handler   *)
(* reads of it: the X-Request-ID header, and what the downstream handlers  *)
(* leave in the response writer and in c.Errors.  The result is the trace  *)
(* of the handler: its calls of the Logger and its call of c.Next().       *)

\* response statuses, on both sides of the limits the handlers test
Statuses == {200, 299, 300, 301, 399, 400, 404, 499, 500, 503}
\* X-Request-ID as the client sent it; "" is the absent header
RequestIDHeaders == {"", "abc", "req-1"}
\* what generateRequestID returns
GeneratedIDs == {"20060102150405-aaaaaaaa", "20060102150406-bbbbbbbb"}

\* a call of a write method of the Logger, and the call of c.Next()
LogCall(method, msg, err, fields) ==
    [ev |-> "log", method |-> method, msg |-> msg, err |-> err, fields |-> fields]
NextCall == [ev |-> "c.Next"]

\* fields["errors"] = c.Errors.String() when len(c.Errors) > 0
WithErrors(fields, errors) ==
    IF errors # "" THEN MergeFields(fields, [k \in {"errors"} |-> errors]) ELSE fields

StatusLogStrict(msgs, status, fields) ==
    CASE status > 500 -> LogCall("Error", msgs[1], NilErr, fields)
      [] status > 400 -> LogCall("Warn", msgs[2], NilErr, fields)
      [] OTHER        -> LogCall("Info", msgs[3], NilErr, fields)

\* the switch on the status code at the end of RequestLogger
StatusLog(msgs, status, fields) ==
    CASE status >= 500 -> LogCall("Error", msgs[1], NilErr, fields)
      [] status >= 400 -> LogCall("Warn", msgs[2], NilErr, fields)
      [] OTHER         -> LogCall("Info", msgs[3], NilErr, fields)

\* the switch on the status code at the end of HTTPMiddleware
HTTPStatusLog(status, fields) ==
    CASE status >= 500 -> LogCall("Error", "HTTP Server Error", NilErr, fields)
      [] status >= 400 -> LogCall("Warn", "HTTP Client Error", NilErr, fields)
      [] status >= 300 -> LogCall("Info", "HTTP Redirect", NilErr, fields)
      [] OTHER         -> LogCall("Info", "HTTP Request", NilErr, fields)

\* HTTPMiddleware's handler for one request
HTTPMiddleware_Handler(status, errors) ==
    LET fields == WithErrors([k \in {"method", "path", "status"} |->
                                 CASE k = "method" -> "GET"
                                   [] k = "path"   -> "/p"
                                   [] OTHER        -> ToString(status)],
                             errors)
    IN  <<NextCall, HTTPStatusLog(status, fields)>>

RequestIDGenerated(header, generated) == generated

\* requestID := c.GetHeader("X-Request-ID"); if it is empty, generateRequestID()
RequestID(header, generated) == IF header = "" THEN generated ELSE header

\* RequestLogger's handler for one request
RequestLogger_Handler(header, generated, status, errors) ==
    LET requestID == RequestID(header, generated)
        started   == [k \in {"request_id", "method", "path"} |->
                         CASE k = "request_id" -> requestID
                           [] k = "method"     -> "GET"
                           [] OTHER            -> "/p"]
        fields    == WithErrors([k \in {"request_id", "method", "path", "status"} |->
                                    CASE k = "request_id" -> requestID
                                      [] k = "method"     -> "GET"
                                      [] k = "path"       -> "/p"
                                      [] OTHER            -> ToString(status)],
                                errors)
    IN  <<LogCall("Info", "Request started", NilErr, started),
          NextCall,
          StatusLog(<<"Request failed with server error",
                      "Request failed with client error",
                      "Request completed">>, status, fields)>>

HTTPRequest ==
    /\ \E status \in Statuses, errors \in {"", "e1"} :
          unit' = [op |-> "HTTPMiddleware", status |-> status, errors |-> errors,
                   trace |-> HTTPMiddleware_Handler(status, errors)]
    /\ UNCHANGED logVars

LoggedRequest ==
    /\ \E header \in RequestIDHeaders, generated \in GeneratedIDs,
          status \in Statuses, errors \in {"", "e1"} :
          unit' = [op |-> "RequestLogger", header |-> header,
                   generated |-> generated, status |-> status, errors |-> errors,
                   trace |-> RequestLogger_Handler(header, generated, status, errors)]
    /\ UNCHANGED logVars

---------------------------------------------------------------------------
(* Package product: the in-memory repository and productService.           *)
(* The repository maps an ID to a *Product; products is that map, as       *)
(* references into heap, the Product values the references point to.       *)

\* a nil pointer of an UpdateProductRequest, and a pointer to v
Unset == <<>>
PtrTo(v) == <<v>>

\* the product the repository holds before the call
StoredProduct ==
    [ID |-> "p1", Name |-> "n1", Description |-> "d1", Price |-> 10,
     Category |-> "c1", Stock |-> 3, UpdatedAt |-> "t0"]

EmptyRepository == [products |-> [id \in {} |-> 1], heap |-> <<>>]
OneProductRepository ==
    [products |-> [id \in {"p1"} |-> 1], heap |-> <<StoredProduct>>]
Repositories == {EmptyRepository, OneProductRepository}

ProductIDs == {"", "p1", "p9"}

\* UpdateProductRequest values: every field nil or set, prices and stocks on
\* both sides of the limits UpdateProduct tests
UpdateProductRequests ==
    [Name : {Unset, PtrTo("n2")}, Description : {Unset, PtrTo("d2")},
     Price : {Unset, PtrTo(-1), PtrTo(0), PtrTo(5)},
     Category : {Unset, PtrTo("c2")},
     Stock : {Unset, PtrTo(-1), PtrTo(0), PtrTo(7)}]

\* productRepository.GetByID: the stored pointer itself, or an error
GetByID(repo, id) ==
    IF id \in DOMAIN repo.products
    THEN [err |-> NilErr, ref |-> repo.products[id]]
    ELSE [err |-> "product not found", ref |-> 0]

\* productRepository.Update(product), product being the pointer ref
Repository_Update(repo, ref) ==
    IF repo.heap[ref].ID \notin DOMAIN repo.products
    THEN [err |-> "product not found", repo |-> repo]
    ELSE [err |-> NilErr,
          repo |-> [products |-> [repo.products EXCEPT ![repo.heap[ref].ID] = ref],
                    heap |-> [repo.heap EXCEPT ![ref].UpdatedAt = "t1"]]]

\* existingProduct.<field> = *req.<field> when req.<field> != nil
Assign(repo, ref, field, ptr) ==
    IF ptr = Unset THEN repo
    ELSE [repo EXCEPT !.heap = [repo.heap EXCEPT ![ref][field] = ptr[1]]]

\* productService.UpdateProduct: the error it returns and the repository as
\* the call leaves it
UpdateProduct(repo, id, req) ==
    IF id = ""
    THEN [err |-> "product ID is required", repo |-> repo]
    ELSE IF GetByID(repo, id).err # NilErr
    THEN [err |-> "failed to get product", repo |-> repo]
    ELSE LET ref == GetByID(repo, id).ref
             r1  == Assign(repo, ref, "Name", req.Name)
             r2  == Assign(r1, ref, "Description", req.Description)
             r3  == Assign(r2, ref, "Price", req.Price)
             r4  == Assign(r3, ref, "Category", req.Category)
             r5  == Assign(r4, ref, "Stock", req.Stock)
         IN  IF req.Price # Unset /\ req.Price[1] <= 0
             THEN [err |-> "price must be greater than zero", repo |-> r2]
             ELSE IF req.Stock # Unset /\ req.Stock[1] < 0
             THEN [err |-> "stock cannot be negative", repo |-> r4]
             ELSE IF Repository_Update(r5, ref).err # NilErr
             THEN [err |-> "failed to update product", repo |-> r5]
             ELSE [err |-> NilErr, repo |-> Repository_Update(r5, ref).repo]

\* What GetProduct and GetAllProducts show of a repository: for each ID the
\* Product its pointer points to.
Visible(repo) == [id \in DOMAIN repo.products |-> repo.heap[repo.products[id]]]

UpdateProductCall ==
    /\ \E repo \in Repositories, id \in ProductIDs, req \in UpdateProductRequests :
          unit' = [op |-> "UpdateProduct", id |-> id, req |-> req,
                   before |-> Visible(repo),
                   err |-> UpdateProduct(repo, id, req).err,
                   after |-> Visible(UpdateProduct(repo, id, req).repo)]
    /\ UNCHANGED logVars

InitUnits == NewLogger({DefaultConfig})

NextUnits ==
    \/ MultiHandle
    \/ FormatJSON
    \/ Construct
    \/ Shutdown
    \/ LevelName
    \/ FormatText
    \/ ParseLevel
    \/ HTTPRequest
    \/ LoggedRequest
    \/ UpdateProductCall

SpecUnits == InitUnits /\ [][NextUnits]_vars

---------------------------------------------------------------------------
(* Claims *)

\* Some sink holds a piece of the call id.
HasPiece(id) ==
    \E s \in Outputs : \E i \in DOMAIN sinks[s] : sinks[s][i].call = id

\* M is B overlaid by C: C's value on every key of C, B's value on the keys
\* of B that C lacks, and no other key.
IsOverlay(M, B, C) ==
    /\ DOMAIN M = (DOMAIN B) \cup (DOMAIN C)
    /\ \A k \in DOMAIN C : M[k] = C[k]
    /\ \A k \in (DOMAIN B) \ (DOMAIN C) : M[k] = B[k]

\* C1: a call at a level below the minimum level of its logger (the root or
\* a derived one) never invokes the logger's Handler and writes no byte to
\* any sink: the call goes straight to its return with no Entry handed over,
\* and until it has returned no sink holds a piece of it.
C1_BelowLevelNothingWritten ==
    /\ (built.t # 0 /\ built.level < loggers[built.logger].config.Level)
          => /\ built.handed = <<>>
             /\ pc[built.t] = "ret"
             /\ call[built.t].handled = 0
    /\ \A t \in Callers :
          (pc[t] = "ret" /\ call[t].handled = 0)
             => /\ ~HasPiece(CallId(t))
                /\ call[t].data = <<>> /\ call[t].fbdata = <<>>

\* a derived logger drops a call one level below its minimum after an
\* earlier call has written
C1_Witness ==
    /\ built.t # 0
    /\ built.logger > 1
    /\ built.level + 1 = loggers[built.logger].config.Level
    /\ pc[built.t] = "ret"
    /\ \E s \in Outputs : sinks[s] # <<>>

\* C2: a call at or above the minimum level (the minimum included) builds
\* one Entry with the call's level, message and error and the merged fields
\* and hands it to the configured Handler, and no call invokes that Handler
\* more than once.
C2_AcceptedHandedOnce ==
    /\ (built.t # 0 /\ built.level >= loggers[built.logger].config.Level)
          => /\ Len(built.handed) = 1
             /\ built.handed[1].Level = built.level
             /\ built.handed[1].Message = built.msg
             /\ built.handed[1].Error = built.err
             /\ IsOverlay(built.handed[1].Fields, built.base, built.fields)
             /\ loggers[built.logger].handler = CfgHandler
             /\ call[built.t].handled = 1
    /\ \A t \in Callers : call[t].handled <= 1
    /\ \A t \in Callers :
          pc[t] \in {"Handle", "write", "fbwrite", "panic"} => call[t].handled = 1

\* a call at exactly the minimum level, carrying an error and fields
C2_Witness ==
    /\ built.t # 0
    /\ built.level = loggers[built.logger].config.Level
    /\ built.err = "e1"
    /\ built.fields = F2
    /\ Len(built.handed) = 1
    /\ pc[built.t] = "write"

\* The positions of the sink of the configured handler that it wrote itself.
OwnPositions ==
    {i \in DOMAIN sinks[handlerOut] : sinks[handlerOut][i].h = CfgHandler}

\* C3: the bytes one Handle call of the configured Console or File handler
\* writes are contiguous among what that handler instance writes: between
\* two pieces of one call the handler has written no piece of another call.
C3_HandleOutputContiguous ==
    \A i \in OwnPositions : \A k \in OwnPositions : \A j \in OwnPositions :
        (i < j /\ j < k /\ sinks[handlerOut][i].call = sinks[handlerOut][k].call)
            => sinks[handlerOut][j].call = sinks[handlerOut][i].call

\* one caller is between the two pieces of its record while another caller
\* waits in Handle for the mutex, after an earlier record was written
C3_Witness ==
    \E t \in Callers : \E u \in Callers :
        /\ t # u
        /\ pc[t] = "write" /\ call[t].sent = 1
        /\ pc[u] = "Handle"
        /\ Cardinality(OwnPositions) >= 3

\* The number of complete lines a sink content holds: the newline pieces
\* whose line, back to the previous newline or the start, holds pieces of one
\* call only, written by the configured handler, the line's body included.
LineStart(s, i) ==
    IF \E j \in 1..(i - 1) : s[j].kind = "\n"
    THEN 1 + CHOOSE j \in 1..(i - 1) :
                 /\ s[j].kind = "\n"
                 /\ \A m \in (j + 1)..(i - 1) : s[m].kind # "\n"
    ELSE 1

CompleteLines(s) ==
    Cardinality({i \in DOMAIN s :
        /\ s[i].kind = "\n"
        /\ LineStart(s, i) < i
        /\ \A j \in LineStart(s, i)..i :
              s[j].call = s[i].call /\ s[j].h = CfgHandler})

\* Every one of the NumCallers * MaxCalls calls was a write call whose Handle
\* returned nil, and all have returned.
AllCallsWritten ==
    /\ \A t \in Callers : pc[t] = "idle" /\ ncalls[t] = MaxCalls
    /\ faults = 0
    /\ \A t \in Callers : \A n \in 1..MaxCalls :
          \E i \in OwnPositions : sinks[handlerOut][i].call = <<t, n>>

\* C4: when NumCallers callers have each made MaxCalls write calls through
\* the logger NewLogger built, in the json or the text format, the sink holds
\* exactly NumCallers * MaxCalls complete lines, none missing, truncated or
\* glued to another.
C4_EveryRecordACompleteLine ==
    AllCallsWritten => CompleteLines(sinks[handlerOut]) = NumCallers * MaxCalls

\* The base fields the derivation history gives logger i: none for the
\* logger NewLogger built, the parent's for WithContext, and for
\* WithFields(C) the parent's on the keys C lacks and C's on its own.
RECURSIVE DerivedBase(_)
DerivedBase(i) ==
    IF derivation[i].how = "NewLogger" THEN EmptyFields
    ELSE IF derivation[i].how = "WithContext"
         THEN DerivedBase(derivation[i].parent)
         ELSE LET B == DerivedBase(derivation[i].parent)
                  C == derivation[i].arg
              IN  [k \in (DOMAIN B) \cup (DOMAIN C) |->
                      IF k \in DOMAIN C THEN C[k] ELSE B[k]]

\* C5: a logger WithFields(C) derived from a logger with base fields B has,
\* in every entry, the keys of B that C lacks with B's values and the keys
\* of C with C's values (call-site fields aside), and the derivation leaves
\* the receiver as it was: every logger's base fields stay what its own
\* derivation made them, whatever is derived from it later.
C5_WithFieldsKeepsReceiver ==
    /\ \A i \in DOMAIN loggers : maps[loggers[i].fields] = DerivedBase(i)
    /\ (built.t # 0 /\ Len(built.handed) = 1)
          => \A k \in (UNION {DOMAIN f : f \in FieldArgs}) \ DOMAIN built.fields :
                LET B == DerivedBase(built.logger)
                    F == built.handed[1].Fields
                IN  /\ k \in DOMAIN F <=> k \in DOMAIN B
                    /\ k \in DOMAIN B => F[k] = B[k]

\* the receiver (base F1) logs after WithFields(F2), colliding on k1, was
\* derived from it: its entry still carries F1 alone
C5_Witness ==
    /\ Len(loggers) = 3
    /\ derivation[2] = [how |-> "WithFields", parent |-> 1, arg |-> F1]
    /\ derivation[3] = [how |-> "WithFields", parent |-> 2, arg |-> F2]
    /\ maps[loggers[3].fields] = F2
    /\ built.t # 0 /\ built.logger = 2
    /\ Len(built.handed) = 1
    /\ built.handed[1].Fields = F1

\* C6: the fields of a written Entry are the logger's base fields B overlaid
\* by the call-site fields C, C winning on a shared key, and the call changes
\* neither B nor C, so call-site fields do not show in later entries of the
\* same logger.
C6_CallSiteOverlay ==
    (built.t # 0 /\ Len(built.handed) = 1)
        => /\ IsOverlay(built.handed[1].Fields, built.base, built.fields)
           /\ maps[loggers[built.logger].fields] = built.base
           /\ built.argAfter = built.fields

\* base F2 and call-site F1 share k1 with different values; k2 is B's alone
C6_Witness ==
    /\ built.t # 0
    /\ built.base = F2 /\ built.fields = F1
    /\ Len(built.handed) = 1
    /\ built.handed[1].Fields = [k1 |-> "a", k2 |-> "a"]
    /\ maps[loggers[built.logger].fields] = F2

\* stderr holds the whole diagnostic line of the call id: the line the
\* fallback handler of that call formatted, and after it its newline.
DiagnosticWritten(id) ==
    LET fb == FallbackHandler(id[1], id[2])
    IN  \E i \in DOMAIN sinks["stderr"] : \E j \in DOMAIN sinks["stderr"] :
            /\ i < j
            /\ sinks["stderr"][i] = [h |-> fb, call |-> id, kind |-> "line"]
            /\ sinks["stderr"][j] = [h |-> fb, call |-> id, kind |-> "\n"]

\* The call of caller t goes on to a normal return and is given the
\* fallback Entry that describes the handler's error.
FallsBack(t) ==
    /\ pc[t] \in {"fbwrite", "ret"}
    /\ Len(call[t].fbentry) = 1
    /\ call[t].fbentry[1].Level = ErrorLevel
    /\ call[t].fbentry[1].Message = FallbackMessage
    /\ call[t].fbentry[1].Error = call[t].herr

\* C7 as stated: when Handle returns an error the write method still returns
\* normally and a diagnostic line describing the failure is written to
\* stderr.
C7_HandleErrorDiagnosed ==
    \A t \in Callers :
        call[t].herr # NilErr
            => /\ FallsBack(t)
               /\ pc[t] = "ret" => DiagnosticWritten(CallId(t))

\* C7: when Handle returns an error the write method still returns normally,
\* having handed a diagnostic Entry describing the failure to a Text handler
\* on stderr; the line is in stderr when the call returns unless that write
\* to stderr failed itself, which the call ignores.
C7_HandleErrorDiagnosedUnlessStderrFails ==
    \A t \in Callers :
        call[t].herr # NilErr
            => /\ FallsBack(t)
               /\ (pc[t] = "ret" /\ call[t].fbherr = NilErr)
                     => DiagnosticWritten(CallId(t))

\* a call whose Format failed has returned with its diagnostic in stderr,
\* and stdout, the configured sink, holds nothing of it
C7_Witness ==
    \E t \in Callers :
        /\ pc[t] = "ret"
        /\ call[t].herr = MarshalError
        /\ call[t].fbherr = NilErr
        /\ handlerOut = "stdout"
        /\ DiagnosticWritten(CallId(t))
        /\ \A i \in DOMAIN sinks["stdout"] : sinks["stdout"][i].call # CallId(t)

\* C8: a run-time fault of the Formatter or the Handler is caught inside the
\* logging call and never unwinds past Debug, Info, Warn, Error or Fatal into
\* the application: no caller is ever left with a panic coming out of its
\* write method, and no process ends by one.
C8_FaultsCaughtInsideCall ==
    /\ \A t \in Callers : pc[t] # "panic"
    /\ exited => exitCode # PanicExitStatus

\* C9: whatever a sink holds was written by the one Handler that owns it,
\* inside that handler's lock; the fallback path writes to the sink of the
\* configured handler only while holding that handler's lock.
C9_SinkWrittenByOwnerOnly ==
    /\ \A s \in Outputs : \A i \in DOMAIN sinks[s] : \A j \in DOMAIN sinks[s] :
          sinks[s][i].h = sinks[s][j].h
    /\ \A t \in Callers :
          (pc[t] = "fbwrite" /\ handlerOut = ConsoleOutput("stderr")) => mu = t

\* C10: Fatal ends the process with a non-zero exit status, and only after
\* the write path of its entry (Handle and, if it failed, the fallback write)
\* has returned: a Fatal call stays on its write path until the process
\* ends, and the step that ends the process with Fatal's status is taken by a
\* Fatal call whose write path has returned.
C10_FatalExitsAfterWritePath ==
    /\ [](\A t \in Callers :
            call[t].after = "exit" => pc[t] \in {"Handle", "write", "fbwrite", "ret"})
    /\ [](exited => exitCode # 0)
    /\ [][(exited' /\ exitCode' = FatalExitStatus)
            => \E t \in Callers : call[t].after = "exit" /\ pc[t] = "ret"]_vars

\* C11: no logger operation other than Fatal terminates the process: with
\* handlers that succeed or return errors (no panic in flight), a step taken
\* while no caller is inside Fatal leaves the process running, whatever
\* Debug, Info, Warn, Error, WithFields and WithContext calls came before.
C11_OnlyFatalTerminates ==
    [][(/\ ~exited
        /\ \A t \in Callers : call[t].after # "exit" /\ pc[t] # "panic")
          => ~exited']_vars

\* the caller has made all its calls, one of them through a derived logger
\* and one whose handler returned an error, and the process runs
C11_Witness ==
    /\ ~exited
    /\ ncalls[1] = MaxSeqCalls /\ pc[1] = "idle"
    /\ Len(loggers) > 1
    /\ faults > 0
    /\ \E i \in DOMAIN sinks["stderr"] : sinks["stderr"][i].h[1] = "fb"
    /\ \E i \in DOMAIN sinks[handlerOut] : sinks[handlerOut][i].h = CfgHandler

\* C12: MultiHandler.Handle calls Handle on every member, in list order and
\* once each, whether or not earlier members returned an error; it returns
\* nil when no member failed and otherwise the error of the last failing
\* member of the list.
C12_MultiHandleCallsAll ==
    unit.op = "MultiHandler.Handle"
        => LET hs == unit.handlers
               failing == {i \in DOMAIN hs : hs[i] # NilErr}
           IN  /\ unit.result.invoked = [i \in 1..Len(hs) |-> i]
               /\ failing = {} => unit.result.err = NilErr
               /\ failing # {} =>
                     \E i \in failing :
                        /\ \A j \in failing : j <= i
                        /\ unit.result.err = hs[i]

\* the first two members fail with different errors and the third succeeds
C12_Witness ==
    /\ unit.op = "MultiHandler.Handle"
    /\ unit.handlers = <<"e1", "e2", NilErr>>
    /\ unit.result = [invoked |-> <<1, 2, 3>>, err |-> "e2"]

\* What parsing a marshalled object as JSON gives: a map from each member's
\* key to its decoded value.
ParsedJSON(object) ==
    [k \in {m.key : m \in object} |->
        (CHOOSE m \in object : m.key = k).value.chars]

\* JSONFormatter.Format returned bytes for the Entry in unit.
Formatted ==
    /\ unit.op = "JSONFormatter.Format"
    /\ ~unit.result.panic
    /\ unit.result.err = NilErr

\* C13: formatting an Entry with the JSON formatter and parsing the result
\* as JSON recovers the entry's level, its message and every field key with
\* the value supplied at the call site.
C13_JSONRoundTrip ==
    Formatted
        => LET parsed == ParsedJSON(unit.result.data[1].body)
           IN  /\ "level" \in DOMAIN parsed
               /\ parsed["level"] = LevelString(unit.entry.Level)
               /\ "message" \in DOMAIN parsed
               /\ parsed["message"] = unit.entry.Message
               /\ \A k \in DOMAIN unit.fields :
                     k \in DOMAIN parsed /\ parsed[k] = unit.fields[k]

\* C14: a call-site field whose key is one of the engine's metadata keys is
\* kept in the merged fields of the Entry, and the timestamp, level and
\* message of the formatted output remain the engine's values.
C14_EngineKeysNotOverwritten ==
    Formatted
        => LET parsed == ParsedJSON(unit.result.data[1].body)
           IN  /\ \A k \in DOMAIN unit.fields :
                     k \in DOMAIN unit.entry.Fields
                     /\ unit.entry.Fields[k] = unit.fields[k]
               /\ parsed["timestamp"] = unit.entry.Timestamp
               /\ parsed["level"] = LevelString(unit.entry.Level)
               /\ parsed["message"] = unit.entry.Message

\* C15: NewLogger does not fail on an unrecognised or missing value: a level
\* out of range becomes Info, a format other than json and text becomes
\* json, an output other than stdout, stderr and file becomes stdout; it
\* returns an error, and no logger, exactly when the output is file and the
\* log directory cannot be created.
C15_NewLoggerDefaults ==
    unit.op = "NewLogger"
        => LET raw == unit.raw
               r   == unit.result
           IN  /\ r.err # NilErr <=> (raw.Output = "file" /\ ~unit.mkdirOK)
               /\ r.err # NilErr => r.logger = <<>>
               /\ r.err = NilErr =>
                     /\ Len(r.logger) = 1
                     /\ r.logger[1].config.Level =
                           (IF raw.Level \in Levels THEN raw.Level ELSE InfoLevel)
                     /\ r.logger[1].formatter.kind =
                           (IF raw.Format \in {"json", "text"} THEN raw.Format
                            ELSE "json")
                     /\ r.logger[1].output =
                           (IF raw.Output \in {"stdout", "stderr", "file"}
                            THEN raw.Output ELSE "stdout")

\* a level above Fatal, an unknown format and an unknown output give an
\* Info / json / stdout logger
C15_Witness ==
    /\ unit.op = "NewLogger"
    /\ unit.raw.Level = FatalLevel + 1
    /\ unit.raw.Format = "xml"
    /\ unit.raw.Output = "syslog"
    /\ unit.result.err = NilErr
    /\ unit.result.logger[1].config.Level = InfoLevel
    /\ unit.result.logger[1].formatter.kind = "json"
    /\ unit.result.logger[1].output = "stdout"

\* C16: when the Formatter reports an error for an entry, the Handler
\* aborts that write: no byte of the entry reaches the sink, and the error
\* goes back to the logger, whose fallback then runs.
C16_FormatErrorAbortsWrite ==
    /\ (/\ built.t # 0
        /\ Len(built.handed) = 1
        /\ ~Format(handlerFmt, built.handed[1]).panic
        /\ Format(handlerFmt, built.handed[1]).err # NilErr)
          => /\ pc[built.t] = "fbwrite"
             /\ call[built.t].herr = Format(handlerFmt, built.handed[1]).err
             /\ call[built.t].data = <<>>
             /\ call[built.t].sent = 0
             /\ Len(call[built.t].fbentry) = 1
    /\ \A t \in Callers :
          call[t].herr = MarshalError
             => \A s \in Outputs : \A i \in DOMAIN sinks[s] :
                   ~(sinks[s][i].call = CallId(t) /\ sinks[s][i].h = CfgHandler)

\* the second call's Format failed and the call has returned: the log file
\* holds the record of the first call and nothing else
C16_Witness ==
    /\ handlerOut = "file"
    /\ pc[1] = "ret"
    /\ CallId(1) = <<1, 2>>
    /\ call[1].herr = MarshalError
    /\ Len(sinks["file"]) = 2
    /\ \A i \in DOMAIN sinks["file"] : sinks["file"][i].call = <<1, 1>>

\* C17: the Logger's boundary includes Close, and calling it at shutdown
\* closes the logger's Handler exactly once: a file sink's descriptor is
\* released, the console streams stay open.
C17_CloseAtShutdown ==
    unit.op = "Shutdown"
          => /\ "Close" \in LoggerMethods
             /\ unit.handler.closes = 1
             /\ unit.handler.kind = "file" => ~unit.handler.open
             /\ unit.handler.kind \in {"stdout", "stderr"} => unit.handler.open

\* C18: WithContext returns a new logger, distinct from the receiver, with
\* the receiver's minimum level, Handler and base fields; a call on the
\* derived logger is filtered as the receiver would filter it and hands the
\* same merged fields to the same handler, and the receiver is left as it was.
C18_WithContextEquivalent ==
    /\ \A i \in DOMAIN loggers :
          derivation[i].how = "WithContext"
             => LET p == derivation[i].parent
                IN  /\ i # p
                    /\ loggers[i].config = loggers[p].config
                    /\ loggers[i].handler = loggers[p].handler
                    /\ maps[loggers[i].fields] = maps[loggers[p].fields]
                    /\ maps[loggers[p].fields] = DerivedBase(p)
    /\ (built.t # 0 /\ derivation[built.logger].how = "WithContext")
          => LET p == derivation[built.logger].parent
             IN  /\ built.handed = <<>> <=> built.level < loggers[p].config.Level
                 /\ built.handed # <<>> =>
                       /\ IsOverlay(built.handed[1].Fields,
                                    maps[loggers[p].fields], built.fields)
                       /\ call[built.t].handled = 1
                       /\ loggers[built.logger].handler = loggers[p].handler

\* a logger derived by WithContext from one with base F1 writes an entry
\* and no call-site fields: the entry handed on carries exactly F1
C18_Witness ==
    /\ Len(loggers) = 3
    /\ derivation[2] = [how |-> "WithFields", parent |-> 1, arg |-> F1]
    /\ derivation[3].how = "WithContext" /\ derivation[3].parent = 2
    /\ built.t # 0 /\ built.logger = 3
    /\ built.fields = EmptyFields
    /\ Len(built.handed) = 1
    /\ built.handed[1].Fields = F1

\* C19: the caller's context never aborts or suppresses a write: a call made
\* with a cancelled or expired context is filtered by level alone, and when it
\* passes hands on one Entry that differs from the live-context Entry only in
\* its Context, is formatted to the same bytes, and leaves the caller at the
\* same place of the write path with the same data to deliver.
C19_ContextNeverSuppresses ==
    (built.t # 0 /\ built.ctx = "cancelled")
       => LET t  == built.t
              lg == loggers[built.logger]
          IN  /\ built.handed = <<>> <=> built.level < lg.config.Level
              /\ built.handed # <<>> =>
                   LET e     == built.handed[1]
                       eLive == NewEntry("live", built.level, built.msg, built.err,
                                         MergeFields(built.base, built.fields))
                       cLive == [NoCall EXCEPT !.after = AfterLog(built.level),
                                               !.entry = <<eLive>>, !.handled = 1]
                   IN  /\ e = [eLive EXCEPT !.Context = "cancelled"]
                       /\ Format(handlerFmt, e) = Format(handlerFmt, eLive)
                       /\ call[t].handled = 1
                       /\ pc[t] \in {"write", "fbwrite", "panic"}
                       /\ pc[t] = Locked(t, CallId(t), cLive, eLive).pc
                       /\ call[t] = Locked(t, CallId(t), cLive, eLive).call

\* an Info call with a cancelled context has passed the filter and its
\* formatted line is about to be written by the configured handler
C19_Witness ==
    /\ built.t # 0
    /\ built.ctx = "cancelled"
    /\ built.level = InfoLevel
    /\ Len(built.handed) = 1
    /\ built.handed[1].Context = "cancelled"
    /\ pc[built.t] = "write"
    /\ Len(call[built.t].data) > 0
    /\ call[built.t].sent = 0

\* the names of the five levels, in the order of the levels
LevelNames == <<"DEBUG", "INFO", "WARN", "ERROR", "FATAL">>

\* C21: Level.String maps the five levels, in their order Debug < Info <
\* Warn < Error < Fatal, to the five distinct names DEBUG, INFO, WARN, ERROR,
\* FATAL, and the level name written in a formatted entry, JSON or Text, is
\* this rendering of the entry's level.
C21_LevelNamesRendered ==
    /\ (unit.op = "Level.String" /\ unit.level \in Levels)
          => /\ unit.result = LevelNames[unit.level - DebugLevel + 1]
             /\ \A l \in Levels :
                   /\ l # unit.level => LevelString(l) # unit.result
                   /\ l < unit.level <=>
                         \E i, j \in DOMAIN LevelNames :
                            /\ i < j
                            /\ LevelNames[i] = LevelString(l)
                            /\ LevelNames[j] = unit.result
    /\ Formatted
          => ParsedJSON(unit.result.data[1].body)["level"]
                = LevelNames[unit.entry.Level - DebugLevel + 1]
    /\ unit.op = "TextFormatter.Format"
          => unit.result.data[1].body[2]
                = Part("[%s]", LevelNames[unit.entry.Level - DebugLevel + 1])

PiecesBy(s, h, id) ==
    {i \in DOMAIN sinks[s] : sinks[s][i].h = h /\ sinks[s][i].call = id}

\* C23: on a failed Handle the fallback is one-shot and not recursive: the
\* configured handler was invoked once for the call and writes nothing more
\* for it, one diagnostic Entry (level Error, the handler's error) is
\* formatted by a Text formatter and written to stderr and nowhere else, at
\* most one line of it, and when that write fails the call returns with
\* what the failed write left and tries nothing further.
C23_FallbackOneShot ==
    \A t \in Callers :
        call[t].herr # NilErr
            => LET c  == call[t]
                   id == CallId(t)
                   fb == FallbackHandler(id[1], id[2])
               IN  /\ pc[t] \in {"fbwrite", "ret"}
                   /\ c.handled = 1
                   /\ Cardinality(PiecesBy(handlerOut, CfgHandler, id)) = c.sent
                   /\ c.fbentry = <<FallbackEntry(c.herr)>>
                   /\ c.fbdata = Tagged(TextFormatter_Format(FallbackFormatter,
                                                             c.fbentry[1]).data, fb, id)
                   /\ \A s \in Outputs \ {"stderr"} : PiecesBy(s, fb, id) = {}
                   /\ Cardinality(PiecesBy("stderr", fb, id)) = c.fbsent
                   /\ Cardinality({i \in PiecesBy("stderr", fb, id) :
                                      sinks["stderr"][i].kind = "line"}) <= 1
                   /\ pc[t] = "ret" =>
                         IF c.fbherr = NilErr
                         THEN c.fbsent = Len(c.fbdata)
                         ELSE c.fbsent < Len(c.fbdata)

\* a call whose write to the configured sink failed has also seen its
\* fallback write fail after the diagnostic line, before the newline, and
\* has returned
C23_Witness ==
    \E t \in Callers :
        /\ pc[t] = "ret"
        /\ call[t].herr = WriteError
        /\ call[t].fbherr = WriteError
        /\ call[t].fbsent = 1
        /\ Cardinality(PiecesBy("stderr", FallbackHandler(t, ncalls[t]), CallId(t))) = 1

\* C24: Handle releases the handler's lock on every return path (format
\* error, write error, success): the lock is held only by a caller whose
\* Handle is at its write, and, the sink write returning, every caller
\* inside Handle, waiting for the lock or holding it, leaves Handle, whatever
\* failed and succeeded before: a waiting caller can do so only through the
\* lock, or because the process ends.
C24_LockReleasedOnEveryPath ==
    /\ [](\A t \in Callers : mu = t => pc[t] = "write")
    /\ [](\A t \in Callers : pc[t] = "write" => mu = t)
    /\ \A t \in Callers :
          (pc[t] \in {"Handle", "write"}) ~> (pc[t] \notin {"Handle", "write"})

\* a caller waits for the lock another caller holds, after a sink write has
\* failed and a Format error has been returned
C24_Witness ==
    \E t \in Callers :
        /\ pc[t] = "Handle"
        /\ mu \in Callers \ {t}
        /\ faults >= 1
        /\ \E s \in Outputs : \E i \in DOMAIN sinks[s] : sinks[s][i].h # CfgHandler

\* the piece that ends the output of a call: the closing brace of a JSON
\* object, the newline of a Text line
ClosingKinds == {"}", "\n"}

\* C25: two accepted calls made one after the other by the same caller, on
\* loggers sharing the configured handler, reach the sink in call order:
\* every piece of the earlier call precedes every piece of the later one,
\* and, no write having failed, the earlier call's output is complete once
\* the sink holds anything of the later call, whatever the other callers do.
C25_SameCallerInCallOrder ==
    \A t \in Callers : \A n \in 1..ncalls[t] : \A m \in 1..ncalls[t] :
        n < m =>
            LET first  == PiecesBy(handlerOut, CfgHandler, <<t, n>>)
                second == PiecesBy(handlerOut, CfgHandler, <<t, m>>)
            IN  /\ \A i \in first : \A j \in second : i < j
                /\ (first # {} /\ second # {} /\ faults = 0)
                      => \E i \in first : sinks[handlerOut][i].kind \in ClosingKinds

\* the sink holds both calls of caller 1 whole, in call order, and a piece
\* of caller 2 between them
C25_Witness ==
    LET first  == PiecesBy(handlerOut, CfgHandler, <<1, 1>>)
        second == PiecesBy(handlerOut, CfgHandler, <<1, 2>>)
        other  == PiecesBy(handlerOut, CfgHandler, <<2, 1>>)
    IN  /\ Cardinality(first) = 2
        /\ Cardinality(second) = 2
        /\ \E i \in first : \E k \in other : \E j \in second : i < k /\ k < j

\* C26: on the logger NewLogger built and on every logger derived from it,
\* whatever Level the configuration supplied, a Fatal call is never filtered
\* out: its Entry is handed to the handler, once, in the step the call is
\* made, while the process runs, and any call that will end the process has
\* had its Entry handed on.
C26_FatalNeverFiltered ==
    /\ (built.t # 0 /\ built.level = FatalLevel)
          => /\ ~exited
             /\ Len(built.handed) = 1
             /\ built.handed[1].Level = FatalLevel
             /\ call[built.t].handled = 1
             /\ call[built.t].after = "exit"
    /\ \A t \in Callers : call[t].after = "exit" => call[t].handled = 1

\* Fatal on a derived logger whose configuration has the highest minimum
\* level: the entry is on its way to the sink
C26_Witness ==
    /\ built.t # 0
    /\ built.level = FatalLevel
    /\ built.logger > 1
    /\ loggers[built.logger].config.Level = FatalLevel
    /\ Len(built.handed) = 1
    /\ pc[built.t] = "write"

\* the positions of a handler's trace that are calls of the Logger, and
\* the position of its call of c.Next()
LogPositions(trace) == {i \in DOMAIN trace : trace[i].ev = "log"}
NextPositions(trace) == {i \in DOMAIN trace : trace[i].ev = "c.Next"}

\* C27: for each request RequestLogger attaches one correlation identifier,
\* the X-Request-ID header when that is non-empty and a generated one
\* otherwise; it logs 'Request started' before the downstream handlers run
\* and exactly one completion entry after they return, and both entries
\* carry that request_id.
C27_RequestLoggerCorrelates ==
    unit.op = "RequestLogger"
        => LET tr     == unit.trace
               id     == IF unit.header # "" THEN unit.header ELSE unit.generated
               before == {i \in LogPositions(tr) : \A n \in NextPositions(tr) : i < n}
               after  == {i \in LogPositions(tr) : \A n \in NextPositions(tr) : n < i}
           IN  /\ Cardinality(NextPositions(tr)) = 1
               /\ Cardinality(before) = 1
               /\ \A i \in before : tr[i].msg = "Request started"
               /\ Cardinality(after) = 1
               /\ LogPositions(tr) = before \cup after
               /\ \A i \in LogPositions(tr) :
                     /\ "request_id" \in DOMAIN tr[i].fields
                     /\ tr[i].fields["request_id"] = id

\* a request that came with X-Request-ID "abc" and ended with status 404:
\* both entries carry "abc"
C27_Witness ==
    /\ unit.op = "RequestLogger"
    /\ unit.header = "abc"
    /\ unit.status = 404
    /\ unit.trace[1].fields["request_id"] = "abc"
    /\ unit.trace[2] = NextCall
    /\ unit.trace[3].fields["request_id"] = "abc"

\* the write method the claim fixes for a response status
MethodForStatus(status) ==
    IF status >= 500 THEN "Error" ELSE IF status >= 400 THEN "Warn" ELSE "Info"

\* C28: HTTPMiddleware logs exactly one entry per request, after the
\* downstream handlers have run, at the level the response status fixes:
\* Error from 500, Warn from 400 to 499, Info otherwise; the completion entry
\* of RequestLogger uses the same mapping.
C28_StatusFixesLevel ==
    /\ unit.op = "HTTPMiddleware"
          => LET tr == unit.trace
             IN  /\ Cardinality(NextPositions(tr)) = 1
                 /\ Cardinality(LogPositions(tr)) = 1
                 /\ \A i \in LogPositions(tr) :
                       /\ \A n \in NextPositions(tr) : n < i
                       /\ tr[i].method = MethodForStatus(unit.status)
    /\ unit.op = "RequestLogger"
          => LET tr == unit.trace
             IN  \A i \in LogPositions(tr) :
                    (\A n \in NextPositions(tr) : n < i)
                        => tr[i].method = MethodForStatus(unit.status)

\* a response with status 500, the lowest that is logged with Error
C28_Witness ==
    /\ unit.op = "HTTPMiddleware"
    /\ unit.status = 500
    /\ unit.trace[2].ev = "log"
    /\ unit.trace[2].method = "Error"

\* The sections of a Text line as the claim lists them, for the Entry and
\* the formatter in unit.
ClaimedSections ==
    <<Part("timestamp", unit.entry.Timestamp),
      Part("[%s]", LevelNames[unit.entry.Level - DebugLevel + 1])>>
    \o (IF unit.f.AddCaller THEN <<Part("(%s)", "file:line func")>> ELSE <<>>)
    \o <<Part("message", unit.entry.Message)>>
    \o (IF unit.entry.Fields # EmptyFields
        THEN <<Part("{%s}", MergeFields(unit.base, unit.fields))>> ELSE <<>>)
    \o (IF unit.entry.Error # NilErr
        THEN <<Part("error=%s", unit.entry.Error)>> ELSE <<>>)

\* the section the formatter adds when stack traces are enabled and the
\* Entry carries an Error: a line break, "Stack trace:" and the frames
StackSection ==
    IF unit.f.AddStack /\ unit.entry.Error # NilErr
    THEN <<Part("\nStack trace:", <<>>), Part("frames", "frames")>>
    ELSE <<>>

\* the parts of a Text line that begin with a line break
LineBreaks(parts) == {i \in DOMAIN parts : parts[i].p = "\nStack trace:"}

C30_FailedUpdateChangesNothing ==
    (unit.op = "UpdateProduct" /\ unit.err # NilErr)
        => unit.after = unit.before

====
